---- MODULE Spec2Model ----
(***************************************************************************)
(* Model of the optimus HTTP gateway (src/app.js): the express request     *)
(* pipeline assembled by App.getInstance and the server start-up of        *)
(* App.start.                                                              *)
(*                                                                         *)
(* Library behaviour the model relies on (express 4, body-parser 1,        *)
(* error-cat 3, bluebird, node http):                                      *)
(*  - the router walks the stack in mount order; a handler of arity 4 is   *)
(*    run only while an error is being forwarded, every other handler only *)
(*    while none is; app.use(path, fn) matches a path prefix, app.get      *)
(*    matches the whole path and also serves HEAD;                         *)
(*  - a handler that throws is caught by the router and the thrown value   *)
(*    is forwarded as next(err);                                           *)
(*  - res.send(<number>) sets the status code and sends the status text;   *)
(*    res.send writes no body for a HEAD request;                          *)
(*  - bodyParser.json() parses only bodies with a JSON content type, in    *)
(*    strict mode (objects and arrays only), and forwards an error with    *)
(*    status 400 (not a Boom error) when parsing fails;                    *)
(*  - cat.middleware reports the error and forwards it;                    *)
(*  - RouteError is Boom-tagged and carries output.statusCode;             *)
(*  - handlers run to completion on the event loop: the synchronous part   *)
(*    of a request's chain is not interleaved with other callbacks; the    *)
(*    chain is suspended while the body is read and while the              *)
(*    collaborator works;                                                  *)
(*  - server.listen throws synchronously for a port out of range, and      *)
(*    reports a failed bind by an 'error' event, never through the         *)
(*    listen callback, which is the 'listening' event listener.            *)
(***************************************************************************)
EXTENDS Integers, Sequences, FiniteSets, TLC

\* ------------------------------------------------------------------ bounds
MaxReqs == 1
MaxStarts == 1
\* calls of start() in one process, where the claim is about repeated calls
MaxCalls == 2
\* requests in flight at the same time on pipelines called directly, and
\* pipelines constructed by direct calls of getInstance()
MaxConc == 2
MaxApps == 2

ReqIds == 1..MaxReqs
StartIds == 1..MaxStarts

VARIABLES req, starts, socket, process, port, cur, apps

vars == <<req, starts, socket, process, port, cur, apps>>

\* ------------------------------------------------------------ request data
Methods == {"GET", "PUT", "HEAD"}

\* a path is the sequence of its segments: <<>> is "/"
Paths == {<<>>, <<"health">>, <<"health", "x">>, <<"version">>, <<"foo">>}

JsonType == "application/json"

\* the Content-Type header of a request; "" is a request without a body
ContentTypes == {"", JsonType, "text/plain"}

\* the body texts a request can carry; the body is read only when a handler
\* asks for it
Bodies == {"{\"a\":1}", "42", "not json"}

\* response and request bodies are tuples of strings; <<>> is no body
NoBody == <<>>
Text(s) == <<"text", s>>
EmptyObject == <<"object">>

\* package.json version
version == "1.2.3"

\* --------------------------------------------------------------- errors
NoErr == [name |-> "none", message |-> "", isBoom |-> FALSE, statusCode |-> 0, status |-> 0]

\* new RouteError(message, statusCode): Boom-tagged, output.statusCode set
RouteError(message, statusCode) ==
    [name |-> "RouteError", message |-> message, isBoom |-> TRUE,
     statusCode |-> statusCode, status |-> 0]

\* the error body-parser forwards for a body it cannot parse
ParseError ==
    [name |-> "SyntaxError", message |-> "Unexpected token", isBoom |-> FALSE,
     statusCode |-> 0, status |-> 400]

\* a value thrown inside a handler: a plain Error
Fault ==
    [name |-> "Error", message |-> "fault", isBoom |-> FALSE,
     statusCode |-> 0, status |-> 0]

\* what the rule-application collaborator can signal (its contract: an error
\* with a message and an optional status, Boom-tagged or not)
CollaboratorErrors ==
    { [name |-> "Boom", message |-> "bad rules", isBoom |-> TRUE,
       statusCode |-> 422, status |-> 0],
      [name |-> "Error", message |-> "conflict", isBoom |-> FALSE,
       statusCode |-> 0, status |-> 409],
      [name |-> "Error", message |-> "failed", isBoom |-> FALSE,
       statusCode |-> 0, status |-> 0] }

\* what the collaborator can answer on success
CollaboratorOutputs == {<<"object">>, <<"object", "out", "1">>}

\* ------------------------------------------------------------ body parsing
\* JSON.parse on the body texts of Bodies; <<"SyntaxError">> when it throws
JSONParse(raw) ==
    CASE raw = "{\"a\":1}" -> <<"object", "a", "1">>
      [] raw = "42" -> <<"number", "42">>
      [] OTHER -> <<"SyntaxError">>

\* body-parser reads and parses only a body with a JSON content type
ShouldParse(q) == q.ctype = JsonType

\* the parser swallows a parse failure and leaves req.body empty
bodyParser_Swallow(q) ==
    IF ShouldParse(q) /\ JSONParse(q.raw)[1] \in {"object", "array"}
    THEN [body |-> JSONParse(q.raw), err |-> NoErr]
    ELSE [body |-> EmptyObject, err |-> NoErr]

\* require('body-parser').json(): the parsed req.body, or the error forwarded
bodyParser(q) ==
    IF ~ShouldParse(q)
    THEN [body |-> EmptyObject, err |-> NoErr]
    ELSE IF JSONParse(q.raw)[1] \in {"object", "array"}
         THEN [body |-> JSONParse(q.raw), err |-> NoErr]
         ELSE [body |-> EmptyObject, err |-> ParseError]

\* ------------------------------------------------------------ the pipeline
Use(name, path, isErr) ==
    [name |-> name, kind |-> "use", method |-> "", path |-> path, isErr |-> isErr]

Route(name, method, path) ==
    [name |-> name, kind |-> "route", method |-> method, path |-> path, isErr |-> FALSE]

\* the stack with the rule route mounted by app.post instead of app.put
getInstance_PostRoute ==
    << Use("health", <<"health">>, FALSE),
       Use("connectDatadog", <<>>, FALSE),
       Use("logger", <<>>, FALSE),
       Use("bodyParser", <<>>, FALSE),
       Route("versionResponder", "GET", <<"version">>),
       Route("applyRules", "POST", <<>>),
       Use("catMiddleware", <<>>, TRUE),
       Use("errorLogger", <<>>, TRUE),
       Use("notFound", <<>>, FALSE),
       Use("errorResponder", <<>>, TRUE) >>

\* the stack with the access logger mounted after the body parser
getInstance_LoggerLate ==
    << Use("health", <<"health">>, FALSE),
       Use("connectDatadog", <<>>, FALSE),
       Use("bodyParser", <<>>, FALSE),
       Use("logger", <<>>, FALSE),
       Route("versionResponder", "GET", <<"version">>),
       Route("applyRules", "PUT", <<>>),
       Use("catMiddleware", <<>>, TRUE),
       Use("errorLogger", <<>>, TRUE),
       Use("notFound", <<>>, FALSE),
       Use("errorResponder", <<>>, TRUE) >>

\* the stack with the health handler mounted as the route GET /health
getInstance_HealthRoute ==
    << Route("health", "GET", <<"health">>),
       Use("connectDatadog", <<>>, FALSE),
       Use("logger", <<>>, FALSE),
       Use("bodyParser", <<>>, FALSE),
       Route("versionResponder", "GET", <<"version">>),
       Route("applyRules", "PUT", <<>>),
       Use("catMiddleware", <<>>, TRUE),
       Use("errorLogger", <<>>, TRUE),
       Use("notFound", <<>>, FALSE),
       Use("errorResponder", <<>>, TRUE) >>

\* the stack App.getInstance mounts, in mount order
getInstance ==
    << Use("health", <<"health">>, FALSE),
       Use("connectDatadog", <<>>, FALSE),
       Use("logger", <<>>, FALSE),
       Use("bodyParser", <<>>, FALSE),
       Route("versionResponder", "GET", <<"version">>),
       Route("applyRules", "PUT", <<>>),
       Use("catMiddleware", <<>>, TRUE),
       Use("errorLogger", <<>>, TRUE),
       Use("notFound", <<>>, FALSE),
       Use("errorResponder", <<>>, TRUE) >>

IsPrefix(p, path) ==
    /\ Len(p) <= Len(path)
    /\ \A i \in 1..Len(p) : p[i] = path[i]

\* a route registered for GET also handles HEAD
HandlesMethod(layer, method) ==
    layer.method = (IF method = "HEAD" THEN "GET" ELSE method)

\* does the layer match the request's path (and, for a route, its method)
Match(layer, q) ==
    IF layer.kind = "use"
    THEN IsPrefix(layer.path, q.path)
    ELSE layer.path = q.path /\ HandlesMethod(layer, q.method)

\* the router's next(err): the index of the next layer after `from` that
\* matches the request and whose arity fits (error handlers only while an
\* error is forwarded); 0 when the stack is exhausted
NextLayer(stack, q, from, e) ==
    LET cand == { i \in (from + 1)..Len(stack) :
                    /\ Match(stack[i], q)
                    /\ stack[i].isErr = (e.name # "none") }
    IN  IF cand = {} THEN 0
        ELSE CHOOSE i \in cand : \A j \in cand : i <= j

\* every pipeline getInstance returns has the stack getInstance mounts
StackOf(a) == getInstance

\* next(e) called by the handler the request is at, in the stack of the
\* pipeline that handles the request
Forward(q, e) ==
    LET n == NextLayer(StackOf(q.app), q, q.idx, e)
    IN  [q EXCEPT !.idx = n, !.err = e,
                  !.st = IF n = 0 THEN "unhandled" ELSE "routing"]

\* res.send(body) with the status code set so far; no body for HEAD
Send(q, status, body) ==
    [q EXCEPT !.st = "done", !.status = status,
              !.rbody = IF q.method = "HEAD" THEN NoBody ELSE body,
              !.sent = q.sent + 1]

\* the handler runs: it is appended to the request's trace
Enter(q, name) == [q EXCEPT !.trace = Append(q.trace, name)]

\* the event loop is free to run the next callback
Idle == process = "running" /\ cur = 0

\* the handler ends: the request's chain goes on with the next handler, or
\* it gives the event loop back (response sent, or waiting for an answer)
Yield(r) == cur' = IF req'[r].st = "routing" THEN r ELSE 0

At(r, name) ==
    /\ process = "running"
    /\ cur = r
    /\ req[r].st = "routing"
    /\ StackOf(req[r].app)[req[r].idx].name = name

IdleReq ==
    [st |-> "idle", method |-> "GET", path |-> <<>>, ctype |-> "", raw |-> "",
     idx |-> 0, body |-> NoBody, err |-> NoErr, status |-> 0, rbody |-> NoBody,
     sent |-> 0, trace |-> <<>>, log |-> <<>>, arg |-> NoBody, out |-> NoBody,
     app |-> 0, overlap |-> FALSE]

\* the request is being handled: received and not yet answered
InFlight(q) == q.st \in {"routing", "reading", "collab"}

\* the process is accepting connections: one of its servers holds the socket
Listening == socket \in DOMAIN starts

\* pipeline a is called with a new request (app(req, res)): the request
\* enters a's stack; o notes whether it arrives while others are in flight
Arrive(r, a, m, p, c, o) ==
    /\ Idle
    /\ req[r].st = "idle"
    /\ LET q == [IdleReq EXCEPT
                   !.method = m, !.path = p, !.ctype = c, !.app = a,
                   !.overlap = o]
       IN  req' = [req EXCEPT ![r] = Forward(q, NoErr)]
    /\ Yield(r)
    /\ UNCHANGED <<starts, socket, process, port, apps>>

\* a request arrives on the listening socket and enters the stack of the
\* server's pipeline
Receive(r) ==
    /\ Listening
    /\ \E m \in Methods, p \in Paths, c \in ContentTypes :
         Arrive(r, starts[socket].app, m, p, c, FALSE)

\* the health handler passes the request on instead of answering
health_Next(q) == Forward(q, NoErr)

\* app.use('/health', function (req, res) { res.send(200) }): a number given
\* to res.send is the status code, and the status text is the body
health(q) == Send(q, 200, Text("OK"))

Health(r) ==
    /\ At(r, "health")
    /\ req' = [req EXCEPT ![r] = health(Enter(req[r], "health"))]
    /\ Yield(r)
    /\ UNCHANGED <<starts, socket, process, port, apps>>

\* the metrics middleware: hooks the end of the response and passes the
\* request on
ConnectDatadog(r) ==
    /\ At(r, "connectDatadog")
    /\ req' = [req EXCEPT ![r] = Forward(Enter(req[r], "connectDatadog"), NoErr)]
    /\ Yield(r)
    /\ UNCHANGED <<starts, socket, process, port, apps>>

\* the access-logging middleware: hooks the end of the response and passes
\* the request on
Logger(r) ==
    /\ At(r, "logger")
    /\ req' = [req EXCEPT ![r] = Forward(Enter(req[r], "logger"), NoErr)]
    /\ Yield(r)
    /\ UNCHANGED <<starts, socket, process, port, apps>>

\* the body parser either passes the request on at once (nothing to parse)
\* or starts to read the body
BodyParser(r) ==
    /\ At(r, "bodyParser")
    /\ LET q == Enter(req[r], "bodyParser")
           p == bodyParser(q)
       IN  IF ShouldParse(q)
           THEN req' = [req EXCEPT ![r] = [q EXCEPT !.st = "reading"]]
           ELSE req' = [req EXCEPT ![r] = Forward([q EXCEPT !.body = p.body], p.err)]
    /\ Yield(r)
    /\ UNCHANGED <<starts, socket, process, port, apps>>

\* the body has been read: it is parsed, and the request or the error is
\* passed on
BodyParserEnd(r) ==
    /\ Idle
    /\ req[r].st = "reading"
    /\ \E b \in Bodies :
         LET q == [req[r] EXCEPT !.raw = b]
             p == bodyParser(q)
         IN  req' = [req EXCEPT ![r] = Forward([q EXCEPT !.body = p.body], p.err)]
    /\ Yield(r)
    /\ UNCHANGED <<starts, socket, process, port, apps>>

\* the version response without the service name
versionResponder_NoName(q) == Send(q, 200, <<"object", "version", version>>)

\* the version handler answers and also calls next()
versionResponder_AndNext(q) ==
    Forward(Send(q, 200, <<"object", "name", "optimus", "version", version>>), NoErr)

versionResponder(q) ==
    Send(q, 200, <<"object", "name", "optimus", "version", version>>)

VersionResponder(r) ==
    /\ At(r, "versionResponder")
    /\ req' = [req EXCEPT ![r] = versionResponder(Enter(req[r], "versionResponder"))]
    /\ Yield(r)
    /\ UNCHANGED <<starts, socket, process, port, apps>>

\* transform.applyRules is called with the request and reads req.body
applyRules(q) == [q EXCEPT !.arg = q.body]

\* the call either returns, the answer coming later, or throws
ApplyRules(r) ==
    /\ At(r, "applyRules")
    /\ LET q == applyRules(Enter(req[r], "applyRules"))
       IN  \/ req' = [req EXCEPT ![r] = [q EXCEPT !.st = "collab"]]
           \/ req' = [req EXCEPT ![r] = Forward(q, Fault)]
    /\ Yield(r)
    /\ UNCHANGED <<starts, socket, process, port, apps>>

\* the collaborator sends its output as the response
applyRulesSuccess(q, out) == Send([q EXCEPT !.out = out], 200, out)

\* the collaborator signals an error with next(err)
applyRulesError(q, e) == Forward(q, e)

ApplyRulesDone(r) ==
    /\ Idle
    /\ req[r].st = "collab"
    /\ \/ \E out \in CollaboratorOutputs :
            req' = [req EXCEPT ![r] = applyRulesSuccess(req[r], out)]
       \/ \E e \in CollaboratorErrors :
            req' = [req EXCEPT ![r] = applyRulesError(req[r], e)]
    /\ Yield(r)
    /\ UNCHANGED <<starts, socket, process, port, apps>>

\* cat.middleware: reports the error and forwards it
CatMiddleware(r) ==
    /\ At(r, "catMiddleware")
    /\ req' = [req EXCEPT ![r] = Forward(Enter(req[r], "catMiddleware"), req[r].err)]
    /\ Yield(r)
    /\ UNCHANGED <<starts, socket, process, port, apps>>

\* the error is logged with log.fatal instead of logger.error
errorLogger_Fatal(q) ==
    Forward([q EXCEPT !.log = Append(q.log,
                 <<"fatal", IF q.err.message = "" THEN "An error occurred"
                            ELSE q.err.message>>)],
            q.err)

\* logger.error({ err: err }, err.message || 'An error occurred'); next(err)
errorLogger(q) ==
    Forward([q EXCEPT !.log = Append(q.log,
                 <<"error", IF q.err.message = "" THEN "An error occurred"
                            ELSE q.err.message>>)],
            q.err)

ErrorLogger(r) ==
    /\ At(r, "errorLogger")
    /\ req' = [req EXCEPT ![r] = errorLogger(Enter(req[r], "errorLogger"))]
    /\ Yield(r)
    /\ UNCHANGED <<starts, socket, process, port, apps>>

\* the RouteError is created without its status code (500 is its default)
notFound_NoStatus(q) == Forward(q, RouteError("Not Found", 500))

notFound(q) == Forward(q, RouteError("Not Found", 404))

NotFound(r) ==
    /\ At(r, "notFound")
    /\ req' = [req EXCEPT ![r] = notFound(Enter(req[r], "notFound"))]
    /\ Yield(r)
    /\ UNCHANGED <<starts, socket, process, port, apps>>

\* the status is read from the error without the default of 500
statusCode_NoDefault(err) == IF err.isBoom THEN err.statusCode ELSE err.status

\* let statusCode = err.isBoom ? err.output.statusCode : 500
statusCode(err) == IF err.isBoom THEN err.statusCode ELSE 500

\* the responder passes the error on instead of sending it
errorResponder_Forward(q) == Forward(q, q.err)

\* res.status(statusCode); res.send(err.message)
\* the error to answer with is kept in one place shared by all requests: the
\* responder answers with the error of the first request that has one
errorResponder_Shared(q) ==
    LET failed == {o \in DOMAIN req : req[o].err.name # "none"}
        e == IF failed = {} THEN q.err
             ELSE req[CHOOSE o \in failed : \A x \in failed : o <= x].err
    IN  Send(q, statusCode(e), Text(e.message))

errorResponder(q) == Send(q, statusCode(q.err), Text(q.err.message))

ErrorResponder(r) ==
    /\ At(r, "errorResponder")
    /\ req' = [req EXCEPT ![r] = errorResponder(Enter(req[r], "errorResponder"))]
    /\ Yield(r)
    /\ UNCHANGED <<starts, socket, process, port, apps>>

\* ---------------------------------------------------------------- start-up
\* the values process.env.PORT is drawn from: a usable port and one out of range
Ports == {3000, 70000}

PortInRange(p) == p \in 0..65535

NoValue == [name |-> "none", message |-> "", err |-> "", port |-> 0]

IdleStart == [pc |-> "init", log |-> <<>>, value |-> NoValue, app |-> 0]

\* start(): the pipeline is built (const instance = this.getInstance()) and
\* the promise chain is created; the returned promise is pending
Start(s) ==
    /\ Idle
    /\ starts[s].pc = "init"
    /\ \A t \in DOMAIN starts : t < s => starts[t].pc # "init"
    /\ apps' = apps + 1
    /\ starts' = [starts EXCEPT ![s].pc = "pending", ![s].app = apps + 1]
    /\ UNCHANGED <<req, socket, process, port, cur>>

\* the .then callback: instance.listen(port, callback) either throws (the
\* promise of fromCallback is rejected) or returns with the bind under way
Listen(s) ==
    /\ Idle
    /\ starts[s].pc = "pending"
    /\ starts' = [starts EXCEPT ![s].pc =
                     IF PortInRange(port) THEN "binding" ELSE "catching",
                                ![s].value =
                     IF PortInRange(port) THEN NoValue
                     ELSE [NoValue EXCEPT !.name = "RangeError"]]
    /\ UNCHANGED <<req, socket, process, port, cur, apps>>

\* the bind succeeded: the listen callback runs without an error, logs and
\* resolves the promise with the server
ListenCallback(s) ==
    /\ Idle
    /\ starts[s].pc = "binding"
    /\ socket = 0
    /\ socket' = s
    /\ starts' = [starts EXCEPT
                    ![s].pc = "resolved",
                    ![s].log = Append(@, <<"info", "Optimus server listening">>),
                    ![s].value = [NoValue EXCEPT !.name = "server", !.port = port]]
    /\ UNCHANGED <<req, process, port, cur, apps>>

\* the bind failed: the server emits 'error'; nothing listens for it, the
\* listen callback is never called, and the error is an uncaught exception,
\* which ends the process unless the host has installed a handler for it
ListenError(s) ==
    /\ Idle
    /\ starts[s].pc = "binding"
    /\ socket # 0
    /\ starts' = [starts EXCEPT ![s].pc = "errored"]
    /\ process' \in {"crashed", "running"}
    /\ UNCHANGED <<req, socket, port, cur, apps>>

\* the .catch handler: wraps the error, logs it as fatal and rethrows
Catch(s) ==
    /\ Idle
    /\ starts[s].pc = "catching"
    /\ LET critical == [name |-> "CriticalError", message |-> "Unable to start server",
                        err |-> starts[s].value.name, port |-> port]
       IN  starts' = [starts EXCEPT
                        ![s].pc = "rejected",
                        ![s].log = Append(@, <<"fatal", critical.message>>),
                        ![s].value = critical]
    /\ UNCHANGED <<req, socket, process, port, cur, apps>>

\* --------------------------------------------------------- specification
Init ==
    /\ req = [r \in ReqIds |-> IdleReq]
    /\ starts = [s \in StartIds |-> IdleStart]
    /\ socket \in {0, -1}
    /\ process = "running"
    /\ port \in Ports
    /\ cur = 0
    /\ apps = 0

Step(r) ==
    \/ Health(r)
    \/ ConnectDatadog(r)
    \/ Logger(r)
    \/ BodyParser(r)
    \/ BodyParserEnd(r)
    \/ VersionResponder(r)
    \/ ApplyRules(r)
    \/ ApplyRulesDone(r)
    \/ CatMiddleware(r)
    \/ ErrorLogger(r)
    \/ NotFound(r)
    \/ ErrorResponder(r)

StartStep(s) ==
    \/ Listen(s)
    \/ ListenCallback(s)
    \/ ListenError(s)
    \/ Catch(s)

Next ==
    \/ \E r \in DOMAIN req : Receive(r)
    \/ \E r \in DOMAIN req : Step(r)
    \/ \E s \in DOMAIN starts : Start(s)
    \/ \E s \in DOMAIN starts : StartStep(s)

Spec == Init /\ [][Next]_vars

\* the event loop runs every callback that is ready, the collaborator
\* answers, and the operating system reports the outcome of a bind
FairSpec ==
    /\ Spec
    /\ \A r \in ReqIds : WF_vars(Step(r))
    /\ \A s \in StartIds : WF_vars(StartStep(s))

\* ------------------------------------------------------------------ claims
Ran(q, name) == \E i \in 1..Len(q.trace) : q.trace[i] = name

Count(q, name) == Cardinality({i \in 1..Len(q.trace) : q.trace[i] = name})

Done(q) == q.st = "done"

LaterStages ==
    {"connectDatadog", "logger", "bodyParser", "versionResponder", "applyRules",
     "catMiddleware", "errorLogger", "notFound", "errorResponder"}

\* C1 as written: every finished request to /health has status 200 and an
\* empty body, and no stage after the health stage ran for it.
C1_Original ==
    \A r \in ReqIds :
        (Done(req[r]) /\ req[r].path = <<"health">>) =>
            /\ req[r].status = 200
            /\ req[r].rbody = NoBody
            /\ \A n \in LaterStages : ~Ran(req[r], n)

\* C1 amended: a request to /health, whatever its method and body, is
\* answered by the health stage with status 200 and the status text "OK" as
\* the body (no body for HEAD), and no later stage is ever invoked for it.
C1_Health ==
    \A r \in ReqIds :
        (req[r].st # "idle" /\ req[r].path = <<"health">>) =>
            /\ \A n \in LaterStages : ~Ran(req[r], n)
            /\ Done(req[r]) =>
                 /\ req[r].status = 200
                 /\ req[r].rbody = IF req[r].method = "HEAD" THEN NoBody ELSE Text("OK")

C1_Witness ==
    \E r \in ReqIds :
        /\ Done(req[r])
        /\ req[r].path = <<"health">>
        /\ req[r].method = "PUT"
        /\ req[r].ctype = JsonType
        /\ req[r].trace = <<"health">>

\* the body is JSON text that does not parse
Malformed(q) ==
    q.ctype = JsonType /\ q.raw \in Bodies /\ JSONParse(q.raw) = <<"SyntaxError">>

IsPutRoot(q) == q.method = "PUT" /\ q.path = <<>>

\* C2: every finished PUT / request whose JSON body fails to parse has a
\* 400-class status, and applyRules was not invoked for it.
C2_Claim ==
    \A r \in ReqIds :
        (Done(req[r]) /\ IsPutRoot(req[r]) /\ Malformed(req[r])) =>
            /\ req[r].status \in 400..499
            /\ ~Ran(req[r], "applyRules")

\* the body is a JSON document: JSON.parse accepts it
ValidJson(q) == q.ctype = JsonType /\ JSONParse(q.raw) # <<"SyntaxError">>

\* the collaborator answered with an output
Succeeded(q) == q.out # NoBody

ErrorStages == {"catMiddleware", "errorLogger", "notFound", "errorResponder"}

\* C3 as written: for every finished PUT / request with a valid JSON body,
\* applyRules was invoked exactly once with the parsed body, and when it
\* succeeded the response is its output with status 200, untouched by the
\* later stages.
C3_Original ==
    \A r \in ReqIds :
        (Done(req[r]) /\ IsPutRoot(req[r]) /\ ValidJson(req[r])) =>
            /\ Count(req[r], "applyRules") = 1
            /\ req[r].arg = JSONParse(req[r].raw)
            /\ Succeeded(req[r]) =>
                 /\ req[r].status = 200
                 /\ req[r].rbody = req[r].out
                 /\ \A n \in ErrorStages : ~Ran(req[r], n)

\* the body-parsing stage parses the body: a JSON object or array sent with
\* a JSON content type
Parsed(q) == q.ctype = JsonType /\ JSONParse(q.raw)[1] \in {"object", "array"}

\* C3 amended: for every PUT / request whose body is a JSON object or array
\* sent with a JSON content type, applyRules is invoked at most once, and
\* exactly once, with the parsed body, by the time the request is finished;
\* when it succeeds the response is its output with status 200, written
\* once, and no error stage runs.
C3_ApplyRules ==
    \A r \in ReqIds :
        (IsPutRoot(req[r]) /\ Parsed(req[r])) =>
            /\ Count(req[r], "applyRules") <= 1
            /\ Done(req[r]) =>
                 /\ Count(req[r], "applyRules") = 1
                 /\ req[r].arg = JSONParse(req[r].raw)
            /\ Succeeded(req[r]) =>
                 /\ Done(req[r])
                 /\ req[r].status = 200
                 /\ req[r].rbody = req[r].out
                 /\ req[r].sent = 1
                 /\ \A n \in ErrorStages : ~Ran(req[r], n)

C3_Witness ==
    \E r \in ReqIds :
        /\ Done(req[r])
        /\ IsPutRoot(req[r])
        /\ Parsed(req[r])
        /\ req[r].arg = <<"object", "a", "1">>
        /\ req[r].rbody = <<"object", "out", "1">>

\* the status an error carries: output.statusCode of a Boom-tagged error,
\* else its status property, else none (500 is the default)
CarriedStatus(e) ==
    IF e.isBoom THEN e.statusCode
    ELSE IF e.status # 0 THEN e.status
    ELSE 500

\* C4: for every finished PUT / request where applyRules signalled an error,
\* the response status is the status the error carries (500 when it carries
\* none) and the response body is the error's message, for each shape of
\* error: Boom-tagged with a status, not Boom-tagged with a status, no status.
C4_Claim ==
    \A r \in ReqIds :
        (Done(req[r]) /\ IsPutRoot(req[r]) /\ req[r].err \in CollaboratorErrors) =>
            /\ req[r].status = CarriedStatus(req[r].err)
            /\ req[r].rbody = Text(req[r].err.message)

\* the request matches none of the three routes, as the claim lists them
NoRouteListed(q) ==
    /\ q.path # <<"health">>
    /\ ~(q.method = "GET" /\ q.path = <<"version">>)
    /\ ~(q.method = "PUT" /\ q.path = <<>>)

\* C5 as written: every finished request other than /health, GET /version
\* and PUT /, whatever its body, has status 404 and body "Not Found".
C5_Original ==
    \A r \in ReqIds :
        (Done(req[r]) /\ NoRouteListed(req[r])) =>
            /\ req[r].status = 404
            /\ req[r].rbody = Text("Not Found")

\* no layer mounted before notFound matches the request
Unmatched(q) ==
    \A i \in 1..Len(getInstance) :
        (getInstance[i].name \in {"health", "versionResponder", "applyRules"})
            => ~Match(getInstance[i], q)

\* C5 amended: every request that the health prefix, the GET /version route
\* (which also serves HEAD) and the PUT / route all fail to match, and whose
\* body the body-parsing stage does not reject, is answered with status 404
\* and body "Not Found" (no body for HEAD).
C5_NotFound ==
    \A r \in ReqIds :
        (Done(req[r]) /\ Unmatched(req[r]) /\ bodyParser(req[r]).err = NoErr) =>
            /\ req[r].status = 404
            /\ req[r].rbody = IF req[r].method = "HEAD" THEN NoBody
                              ELSE Text("Not Found")

C5_Witness ==
    \E r \in ReqIds :
        /\ Done(req[r])
        /\ req[r].method = "PUT"
        /\ req[r].path = <<"foo">>
        /\ req[r].raw = "{\"a\":1}"
        /\ Ran(req[r], "notFound")
        /\ req[r].status = 404

VersionBody == <<"object", "name", "optimus", "version", version>>

IsGetVersion(q) == q.method = "GET" /\ q.path = <<"version">>

\* C6 as written: every finished GET /version request has status 200 and
\* body {name: "optimus", version}, whatever its body, and applyRules was not
\* invoked.
C6_Original ==
    \A r \in ReqIds :
        (Done(req[r]) /\ IsGetVersion(req[r])) =>
            /\ req[r].status = 200
            /\ req[r].rbody = VersionBody
            /\ ~Ran(req[r], "applyRules")

\* C6 amended: every GET /version request whose body the body-parsing stage
\* does not reject (no body, a body without a JSON content type, or a JSON
\* object or array) is answered with status 200 and body
\* {name: "optimus", version}, and applyRules is never invoked for a
\* GET /version request.
C6_Version ==
    \A r \in ReqIds :
        IsGetVersion(req[r]) =>
            /\ ~Ran(req[r], "applyRules")
            /\ (Done(req[r]) /\ bodyParser(req[r]).err = NoErr) =>
                 /\ req[r].status = 200
                 /\ req[r].rbody = VersionBody

C6_Witness ==
    \E r \in ReqIds :
        /\ Done(req[r])
        /\ IsGetVersion(req[r])
        /\ req[r].ctype = JsonType
        /\ req[r].raw = "{\"a\":1}"
        /\ Ran(req[r], "versionResponder")

\* a stage that answers with a successful response
SuccessStages == {"health", "versionResponder"}

\* C7: each request has had at most one response written: a response is
\* written exactly when the request is finished, and no request has both a
\* successful response and an error response.
C7_OneResponse ==
    \A r \in ReqIds :
        /\ req[r].sent <= 1
        /\ Done(req[r]) <=> req[r].sent = 1
        /\ ~(Ran(req[r], "errorResponder") /\
             (Succeeded(req[r]) \/ \E n \in SuccessStages : Ran(req[r], n)))
        /\ Count(req[r], "errorResponder") <= 1

C7_Witness ==
    \E r \in ReqIds :
        /\ Done(req[r])
        /\ req[r].sent = 1
        /\ Ran(req[r], "applyRules")
        /\ Ran(req[r], "errorResponder")

\* C8: every request that enters the pipeline eventually receives its final
\* response, as long as the process is alive (the collaborator answers:
\* FairSpec).
C8_Responds ==
    \A r \in ReqIds :
        (req[r].st # "idle") ~> (Done(req[r]) \/ process = "crashed")

C8_Witness ==
    \E r \in ReqIds :
        /\ Done(req[r])
        /\ req[r].err \in CollaboratorErrors
        /\ Ran(req[r], "errorResponder")
        /\ req[r].sent = 1

\* the configured port cannot be bound: it is out of range, or in use
CannotBind == ~PortInRange(port) \/ socket # 0

\* C9: when start() is called and the port cannot be bound, the returned
\* promise is eventually rejected.
C9_Claim ==
    \A s \in StartIds :
        (starts[s].pc = "pending" /\ CannotBind) ~> (starts[s].pc = "rejected")

\* the request ended in an error response
ErrorResponse(q) == Done(q) /\ Ran(q, "errorResponder")

\* the position of the first run of a stage in the request's trace, 0 if none
Pos(q, name) ==
    IF Ran(q, name)
    THEN CHOOSE i \in 1..Len(q.trace) :
           /\ q.trace[i] = name
           /\ \A j \in 1..Len(q.trace) : q.trace[j] = name => i <= j
    ELSE 0

\* C10: for every request that ended in an error response, the error was
\* logged at error severity by the error-capture stage before the error
\* responder sent the response.
C10_Claim ==
    \A r \in ReqIds :
        ErrorResponse(req[r]) =>
            /\ \E i \in 1..Len(req[r].log) : req[r].log[i][1] = "error"
            /\ Pos(req[r], "errorLogger") > 0
            /\ Pos(req[r], "errorLogger") < Pos(req[r], "errorResponder")

\* a step of the handling of some request
RequestStep == \E r \in ReqIds : Receive(r) \/ Step(r)

\* C11: no step of request handling changes the state of the server: once
\* Listening it stays Listening, no start is moved to Failed, the process is
\* not terminated; and request handling never logs at fatal severity.
C11_Contained ==
    /\ [][RequestStep =>
            /\ Listening => Listening'
            /\ starts' = starts
            /\ socket' = socket
            /\ process' = process]_vars
    /\ [](\A r \in ReqIds : \A i \in 1..Len(req[r].log) : req[r].log[i][1] # "fatal")

C11_Witness ==
    /\ Listening
    /\ process = "running"
    /\ \E r \in ReqIds :
         /\ Done(req[r])
         /\ req[r].err = Fault
         /\ req[r].status = 500
         /\ req[r].log = <<<<"error", "fault">>>>

\* the order of the stages as the claim gives it: the three branches of the
\* dispatch share a rank, the error capture and the responder come last
Rank(n) ==
    CASE n = "health" -> 1
      [] n = "connectDatadog" -> 2
      [] n = "logger" -> 3
      [] n = "bodyParser" -> 4
      [] n \in {"versionResponder", "applyRules", "notFound"} -> 5
      [] n = "catMiddleware" -> 6
      [] n = "errorLogger" -> 7
      [] n = "errorResponder" -> 8

Dispatch == {"versionResponder", "applyRules", "notFound"}

CaptureStages == {"catMiddleware", "errorLogger", "errorResponder"}

\* a finished request may have skipped stage n for one of the reasons the
\* claim allows: the health short-circuit (or a path that is not /health),
\* another branch of the dispatch, a terminal response sent before n, or an
\* error raised before n that jumps over the stages that are not error stages
SkipAllowed(q, n) ==
    \/ Ran(q, "health")
    \/ n = "health" /\ ~IsPrefix(<<"health">>, q.path)
    \/ n \in Dispatch /\ \E m \in Dispatch : Ran(q, m)
    \/ Rank(q.trace[Len(q.trace)]) < Rank(n)
    \/ /\ n \notin CaptureStages
       /\ \E i \in 2..Len(q.trace) :
            q.trace[i] \in CaptureStages /\ Rank(q.trace[i - 1]) < Rank(n)

\* C12: the stages a request runs through respect the order health,
\* metrics, access logging, body parsing, dispatch (with Not Found as its
\* last branch), error capture, error responder, and a finished request
\* skipped a stage only for one of the allowed reasons.
C12_Claim ==
    \A r \in ReqIds :
        /\ \A i, j \in 1..Len(req[r].trace) :
             i < j => Rank(req[r].trace[i]) < Rank(req[r].trace[j])
        /\ Done(req[r]) =>
             \A n \in LaterStages \cup {"health"} :
                 ~Ran(req[r], n) => SkipAllowed(req[r], n)

\* C13: a request that the health stage did not terminate has passed
\* through the metrics stage and the access-logging stage exactly once each
\* by the time it is finished, whatever its outcome, and never more than
\* once; a request the health stage terminated has passed through neither.
C13_Observed ==
    \A r \in ReqIds :
        /\ Count(req[r], "connectDatadog") <= 1
        /\ Count(req[r], "logger") <= 1
        /\ (Done(req[r]) /\ ~Ran(req[r], "health")) =>
             /\ Count(req[r], "connectDatadog") = 1
             /\ Count(req[r], "logger") = 1
        /\ Ran(req[r], "health") =>
             /\ ~Ran(req[r], "connectDatadog")
             /\ ~Ran(req[r], "logger")

C13_Witness ==
    \E r \in ReqIds :
        /\ Done(req[r])
        /\ req[r].err = ParseError
        /\ Count(req[r], "connectDatadog") = 1
        /\ Count(req[r], "logger") = 1

\* the error carries no status: not Boom-tagged and no status property
NoStatus(e) == e.name # "none" /\ ~e.isBoom /\ e.status = 0

\* C14: when an error without a status reaches the error responder, the
\* response has status 500 and the error's message as the body (no body for
\* HEAD); the responder is the last stage to run: it sends and never
\* forwards.
C14_Default500 ==
    \A r \in ReqIds :
        Ran(req[r], "errorResponder") =>
            /\ Done(req[r])
            /\ req[r].sent = 1
            /\ req[r].trace[Len(req[r].trace)] = "errorResponder"
            /\ NoStatus(req[r].err) =>
                 /\ req[r].status = 500
                 /\ req[r].rbody = IF req[r].method = "HEAD" THEN NoBody
                                   ELSE Text(req[r].err.message)

C14_Witness ==
    \E r \in ReqIds :
        /\ Done(req[r])
        /\ req[r].err = Fault
        /\ Ran(req[r], "errorResponder")
        /\ req[r].rbody = Text("fault")

\* the path is /health or lies under it
UnderHealth(q) == IsPrefix(<<"health">>, q.path)

\* C19: a request to any path under /health, with any method, is answered
\* 200 by the health stage and reaches no later stage.
C19_HealthPrefix ==
    \A r \in ReqIds :
        (req[r].st # "idle" /\ UnderHealth(req[r])) =>
            /\ req[r].idx = 1
            /\ \A i \in 1..Len(req[r].trace) : req[r].trace[i] = "health"
            /\ Done(req[r]) => (req[r].status = 200 /\ req[r].trace = <<"health">>)

C19_Witness ==
    \E r \in ReqIds :
        /\ Done(req[r])
        /\ req[r].path = <<"health", "x">>
        /\ req[r].method = "HEAD"
        /\ req[r].status = 200

\* the body has been read and the body-parsing stage rejects it
ParseFails(q) ==
    /\ q.ctype = JsonType
    /\ q.raw \in Bodies
    /\ JSONParse(q.raw)[1] \notin {"object", "array"}

\* C20: when the body-parsing stage rejects the body, whatever the route,
\* none of versionResponder, applyRules and notFound is invoked, and the
\* request goes through the error capture to the error responder.
C20_ParseShortCircuit ==
    \A r \in ReqIds :
        ParseFails(req[r]) =>
            /\ \A n \in Dispatch : ~Ran(req[r], n)
            /\ req[r].err = ParseError
            /\ Done(req[r]) =>
                 req[r].trace = <<"connectDatadog", "logger", "bodyParser",
                                  "catMiddleware", "errorLogger", "errorResponder">>

C20_Witness ==
    \E r \in ReqIds :
        /\ Done(req[r])
        /\ ParseFails(req[r])
        /\ req[r].method = "GET"
        /\ req[r].path = <<"version">>
        /\ Ran(req[r], "errorResponder")

\* the start has ended with a failed listen: the bind failure was reported,
\* or the promise was rejected
ListenFailed(s) == starts[s].pc \in {"errored", "rejected"}

Logged(s, level) ==
    Cardinality({i \in 1..Len(starts[s].log) : starts[s].log[i][1] = level})

\* C16: a start whose listen failed has its promise rejected with the
\* CriticalError 'Unable to start server' that carries the original error
\* and the port, after exactly one fatal log; the 'Optimus server listening'
\* info log is emitted only by a start that resolves with the server.
C16_Claim ==
    \A s \in StartIds :
        /\ ListenFailed(s) =>
             /\ starts[s].pc = "rejected"
             /\ starts[s].value.name = "CriticalError"
             /\ starts[s].value.message = "Unable to start server"
             /\ starts[s].value.err # ""
             /\ starts[s].value.port = port
             /\ Logged(s, "fatal") = 1
             /\ Logged(s, "info") = 0
        /\ Logged(s, "info") > 0 =>
             /\ starts[s].pc = "resolved"
             /\ starts[s].value.name = "server"
             /\ starts[s].log = <<<<"info", "Optimus server listening">>>>

\* ------------------------------------------------- repeated start() calls
\* start() has no guard against a second call: the process calls it
\* MaxCalls times, each call building a pipeline and calling listen
InitStarts ==
    /\ req = [r \in ReqIds |-> IdleReq]
    /\ starts = [s \in 1..MaxCalls |-> IdleStart]
    /\ socket \in {0, -1}
    /\ process = "running"
    /\ port \in Ports
    /\ cur = 0
    /\ apps = 0

StartsSpec == InitStarts /\ [][Next]_vars

\* the start() calls whose listen reached the bind of the listening socket
BindAttempts == {s \in DOMAIN starts : starts[s].pc \in {"binding", "resolved", "errored"}}

\* the lifecycle state of the server of this process
Lifecycle ==
    IF Listening THEN "Listening"
    ELSE IF \E s \in DOMAIN starts : ListenFailed(s) THEN "Failed"
    ELSE "Uninitialized"

\* C15: over any sequence of start() calls in one process at most one bind
\* of the listening socket is attempted, and a process that is Listening
\* has no failed start
C15_Claim ==
    /\ Cardinality(BindAttempts) <= 1
    /\ Lifecycle = "Listening" => \A s \in DOMAIN starts : ~ListenFailed(s)

\* ------------------------------------- pipelines constructed and called directly
\* getInstance builds the pipeline and also takes the port
GetInstance_Listen ==
    /\ Idle
    /\ apps < MaxApps
    /\ apps' = apps + 1
    /\ socket' = -1
    /\ UNCHANGED <<req, starts, process, port, cur>>

\* App.getInstance() called on its own, as a test does
GetInstance ==
    /\ Idle
    /\ apps < MaxApps
    /\ apps' = apps + 1
    /\ UNCHANGED <<req, starts, socket, process, port, cur>>

PipeMethods == {"GET", "PUT"}
PipePaths == {<<>>, <<"health">>, <<"version">>}
PipeTypes == {"", JsonType}

\* a request is handed to pipeline a, whatever else is in flight
ReceiveOn(r, a) ==
    \E m \in PipeMethods, p \in PipePaths, c \in PipeTypes :
        Arrive(r, a, m, p, c, \E o \in DOMAIN req \ {r} : InFlight(req[o]))

\* one pipeline, constructed and not bound, with MaxConc requests
InitConc ==
    /\ req = [r \in 1..MaxConc |-> IdleReq]
    /\ starts = [s \in StartIds |-> IdleStart]
    /\ socket = 0
    /\ process = "running"
    /\ port = 3000
    /\ cur = 0
    /\ apps = 1

NextConc ==
    \/ \E r \in DOMAIN req : \E a \in 1..apps : ReceiveOn(r, a)
    \/ \E r \in DOMAIN req : Step(r)

ConcSpec == InitConc /\ [][NextConc]_vars

\* no pipeline yet; each of the MaxApps pipelines handles its own request
InitPipe ==
    /\ req = [r \in 1..MaxApps |-> IdleReq]
    /\ starts = [s \in StartIds |-> IdleStart]
    /\ socket = 0
    /\ process = "running"
    /\ port = 3000
    /\ cur = 0
    /\ apps = 0

NextPipe ==
    \/ GetInstance
    \/ \E a \in 1..apps : ReceiveOn(a, a)
    \/ \E r \in DOMAIN req : Step(r)

PipeSpec == InitPipe /\ [][NextPipe]_vars

\* what a response shows of a body: nothing for HEAD
Shown(q, body) == IF q.method = "HEAD" THEN NoBody ELSE body

\* the response of a request handled alone, from its method, path, content
\* type and body and from what the collaborator answered for it (its output
\* in q.out, or the error it signalled or threw in q.err)
Expected(q) ==
    IF UnderHealth(q) THEN <<200, Shown(q, Text("OK"))>>
    ELSE IF ParseFails(q) THEN <<500, Shown(q, Text("Unexpected token"))>>
    ELSE IF q.method \in {"GET", "HEAD"} /\ q.path = <<"version">>
         THEN <<200, Shown(q, VersionBody)>>
    ELSE IF IsPutRoot(q)
         THEN IF q.err = NoErr
              THEN <<200, q.out>>
              ELSE <<IF q.err.isBoom THEN q.err.statusCode ELSE 500,
                     Text(q.err.message)>>
    ELSE <<404, Shown(q, Text("Not Found"))>>

\* C18: however the stage executions of concurrent requests interleave,
\* every answered request has the status and body it would get alone, a
\* function of its own method, path, body and collaborator result.
C18_Independent ==
    \A r \in DOMAIN req :
        Done(req[r]) =>
            /\ <<req[r].status, req[r].rbody>> = Expected(req[r])
            /\ req[r].sent = 1

\* two requests that were in flight together, both through applyRules, one
\* answered with the collaborator's output and one with its error
C18_Witness ==
    \E r \in DOMAIN req, o \in DOMAIN req :
        /\ r # o
        /\ Done(req[r]) /\ Done(req[o])
        /\ req[o].overlap
        /\ Ran(req[r], "applyRules") /\ Ran(req[o], "applyRules")
        /\ req[r].status = 200
        /\ req[o].status = 422

\* the place of a stage in the mount order of getInstance
MountIndex(name) == CHOOSE i \in 1..Len(getInstance) : getInstance[i].name = name

\* what the request brought and what the collaborator answered for it
Inputs(q) ==
    <<q.method, q.path, q.ctype, q.raw,
      IF Ran(q, "applyRules") THEN <<q.out, q.err>> ELSE <<>> >>

\* the server lifecycle: the start() calls, the socket and the process
LifecycleState == <<starts, socket, process, port>>

\* C17: a call of getInstance() constructs one more pipeline and leaves the
\* listening socket, the lifecycle and the requests in flight as they are;
\* on every instance a request runs through the stages in the mount order,
\* and requests with the same inputs handled by different instances run
\* through the same stages to the same response.
C17_Construction ==
    /\ [][apps' # apps =>
            /\ apps' = apps + 1
            /\ LifecycleState' = LifecycleState
            /\ req' = req]_vars
    /\ [](\A r \in DOMAIN req :
            /\ req[r].st # "idle" => req[r].app \in 1..apps
            /\ \A i \in 2..Len(req[r].trace) :
                 MountIndex(req[r].trace[i - 1]) < MountIndex(req[r].trace[i]))
    /\ [](\A r \in DOMAIN req, o \in DOMAIN req :
            /\ req[r].app # req[o].app
            /\ Done(req[r]) /\ Done(req[o])
            /\ Inputs(req[r]) = Inputs(req[o])
            => /\ req[r].trace = req[o].trace
               /\ req[r].status = req[o].status
               /\ req[r].rbody = req[o].rbody)

\* two instances, each of which answered a PUT / with the same inputs, while
\* no start() was called and nothing is bound
C17_Witness ==
    /\ apps = 2
    /\ socket = 0
    /\ \A s \in DOMAIN starts : starts[s].pc = "init"
    /\ Done(req[1]) /\ Done(req[2])
    /\ req[1].app = 1 /\ req[2].app = 2
    /\ Ran(req[1], "applyRules")
    /\ Inputs(req[1]) = Inputs(req[2])
====
